---- MODULE Spec2Model ----
(***************************************************************************)
(* Model of src/app.py: the "Data Sync Pro v2" CSV -> catalog-sync run.    *)
(*                                                                         *)
(* The script maps a user-supplied header list onto the uploaded table,    *)
(* checks that the columns id and title exist, and on a button click walks *)
(* the records in slices of batch_size: each slice is cleaned, the rows    *)
(* passing the eligibility test are posted as one JSON document, the       *)
(* status code is classified and two counters are maintained.              *)
(*                                                                         *)
(* Cell values are modelled with their Python type, because the code's     *)
(* two tests on a value (str(v).strip() != "" and truthiness) disagree on  *)
(* some of them.  Text is a tuple of one-character strings so that         *)
(* str() and strip() are computed, not assumed.                            *)
(***************************************************************************)
EXTENDS Integers, Sequences, FiniteSets, TLC

VARIABLES
    user_headers,   \* line 45: the parsed header map, a tuple of column names
    token,          \* line 28: the token text input
    records,        \* line 67: df.to_dict(orient='records')
    batch_size,     \* line 37: the batch size slider
    pc,             \* position of the script
    i,              \* line 71: the loop variable
    success_count,  \* line 65
    error_count,    \* line 66
    batches,        \* history of the local 'batch' (line 72), one per iteration
    posts,          \* history of the requests.post calls (line 93)
    log,            \* what the run displayed: expanders (118) and errors (139)
    progress,       \* history of status_box.caption values (line 143)
    summary,        \* line 146: the "Job Complete!" message, once shown
    san_row,        \* sanitizer harness: the raw row under test
    san_out         \* sanitizer harness: result of lines 77-78 on san_row

vars == << user_headers, token, records, batch_size, pc, i, success_count,
           error_count, batches, posts, log, progress, summary,
           san_row, san_out >>

runVars == << user_headers, token, records, batch_size, pc, i, success_count,
              error_count, batches, posts, log, progress, summary >>

sanVars == << san_row, san_out >>

(***************************************************************************)
(* Bounds of the model.                                                    *)
(***************************************************************************)
\* Longest record list explored.
MaxRows == 3

\* Largest batch size explored.  The slider of line 37 offers 10..100; the
\* loop only needs batch_size >= 1, and small sizes keep several batches
\* within MaxRows.
MaxBatch == 3

(***************************************************************************)
(* Cell values.                                                            *)
(***************************************************************************)
NaN == [kind |-> "nan", s |-> <<>>, n |-> 0]

Str(chars) == [kind |-> "str", s |-> chars, n |-> 0]

Num(k) == [kind |-> "num", s |-> <<>>, n |-> k]

\* What dict.get returns for an absent key.
None == [kind |-> "none", s |-> <<>>, n |-> 0]

Whitespace == {" ", "\t"}

DigitChar(d) ==
    CASE d = 0 -> "0" [] d = 1 -> "1" [] d = 2 -> "2" [] d = 3 -> "3"
      [] d = 4 -> "4" [] d = 5 -> "5" [] d = 6 -> "6" [] d = 7 -> "7"
      [] d = 8 -> "8" [] d = 9 -> "9"

RECURSIVE Digits(_)
Digits(k) == IF k < 10 THEN << DigitChar(k) >>
             ELSE Append(Digits(k \div 10), DigitChar(k % 10))

\* str(v) of line 77, for the values that reach it.
PyStr(v) ==
    CASE v.kind = "str" -> v.s
      [] v.kind = "num" -> Digits(v.n)
      [] v.kind = "nan" -> << "n", "a", "n" >>
      [] OTHER          -> << "N", "o", "n", "e" >>

RECURSIVE LStrip(_)
LStrip(t) == IF t # <<>> /\ Head(t) \in Whitespace THEN LStrip(Tail(t)) ELSE t

RECURSIVE RStrip(_)
RStrip(t) == IF t # <<>> /\ t[Len(t)] \in Whitespace
             THEN RStrip(SubSeq(t, 1, Len(t) - 1)) ELSE t

\* str.strip() of line 77.
Strip(t) == RStrip(LStrip(t))

\* pd.notna(v) of line 77.
NotNa(v) == v.kind # "nan"

\* Variant of Keep that forgets to trim the text.
Keep_NoStrip(v) == NotNa(v) /\ PyStr(v) # <<>>

\* The filter of the dict comprehension on line 77.
Keep(v) == NotNa(v) /\ Strip(PyStr(v)) # <<>>

\* Python truthiness, as used by the 'if' of line 78.
Truthy(v) ==
    CASE v.kind = "str"  -> v.s # <<>>
      [] v.kind = "num"  -> v.n # 0
      [] v.kind = "nan"  -> TRUE
      [] OTHER           -> FALSE

\* line 77: clean_row = {k: v for k, v in row.items() if ...}
CleanRow(row) == [k \in {c \in DOMAIN row : Keep(row[c])} |-> row[k]]

\* dict.get(key) of line 78.
Get(d, key) == IF key \in DOMAIN d THEN d[key] ELSE None

\* line 78: if clean_row.get('id') and clean_row.get('title')
Eligible(clean_row) == Truthy(Get(clean_row, "id")) /\ Truthy(Get(clean_row, "title"))

\* lines 75-79: the clean_batch built from one batch.
RECURSIVE CleanBatch(_)
CleanBatch(batch) ==
    IF batch = <<>> THEN <<>>
    ELSE LET clean_row == CleanRow(Head(batch))
         IN  IF Eligible(clean_row)
             THEN << clean_row >> \o CleanBatch(Tail(batch))
             ELSE CleanBatch(Tail(batch))

(***************************************************************************)
(* Inputs of a run.                                                        *)
(***************************************************************************)
\* Header maps the user may type (line 34), after the split/strip of line 45.
HeaderMaps == { << "id", "title", "brand" >>,
                << "id", "name", "brand" >>,
                << "sku", "title", "brand" >>,
                << "sku", "name", "brand" >> }

Tokens == { "", "tok" }

\* Lines of the uploaded file, by column position.  The first column is
\* numeric (read_csv yields numbers or NaN), the other two are text.
FileLines == { << Num(1), Str(<< "A" >>), Str(<< "X" >>) >>,
               << Num(2), Str(<< " " >>), NaN >>,
               << Num(0), Str(<< "C" >>), Str(<< "X" >>) >>,
               << NaN,    Str(<< "D" >>), Str(<< " " >>) >>,
               << Num(3), Str(<< "B", " " >>), Str(<< " " >>) >> }

\* line 48: names=user_headers overlays the names on the columns by position.
MapLine(headers, line) ==
    [c \in {headers[k] : k \in DOMAIN headers} |->
        line[CHOOSE k \in DOMAIN headers : headers[k] = c]]

\* Status codes the endpoint may answer with.
Statuses == { 200, 201, 401, 500 }

Min(a, b) == IF a < b THEN a ELSE b

(***************************************************************************)
(* Pieces of the script.                                                   *)
(***************************************************************************)
\* Variant of MissingRequired that demands only one of the two columns.
MissingRequired_And(headers) ==
    LET columns == {headers[k] : k \in DOMAIN headers}
    IN  "id" \notin columns /\ "title" \notin columns

\* line 53: 'id' not in df.columns or 'title' not in df.columns
MissingRequired(headers) ==
    LET columns == {headers[k] : k \in DOMAIN headers}
    IN  "id" \notin columns \/ "title" \notin columns

\* Variant of Batch whose slice ends one row early.
Batch_OffByOne(recs, idx, size) == SubSeq(recs, idx + 1, Min(idx + size - 1, Len(recs)))

\* line 72: batch = records[i:i+batch_size]
Batch(recs, idx, size) == SubSeq(recs, idx + 1, Min(idx + size, Len(recs)))

\* line 71: the next value of range(0, total_records, batch_size)
NextIndex(idx, size) == idx + size

\* line 103: batch_num = (i // batch_size) + 1
BatchNum(idx, size) == (idx \div size) + 1

\* Variant of IsSuccess that accepts every status below 400.
IsSuccess_Below400(status) == status < 400

\* line 104: is_success = resp.status_code == 200
IsSuccess(status) == status = 200

\* lines 142-143: min(i + batch_size, total_records) / total_records
ProgressEvent == [done |-> Min(i + batch_size, Len(records)), total |-> Len(records)]

(***************************************************************************)
(* The run.                                                                *)
(***************************************************************************)
RunInit ==
    /\ user_headers \in HeaderMaps
    /\ token \in Tokens
    /\ batch_size \in 1..MaxBatch
    /\ \E n \in 0..MaxRows :
         \E lines \in [1..n -> FileLines] :
            records = [k \in 1..n |-> MapLine(user_headers, lines[k])]
    /\ pc = "loaded"
    /\ i = 0
    /\ success_count = 0
    /\ error_count = 0
    /\ batches = <<>>
    /\ posts = <<>>
    /\ log = <<>>
    /\ progress = <<>>
    /\ summary = <<>>

SanIdle ==
    /\ san_row = [c \in {} |-> NaN]
    /\ san_out = [state |-> "idle", clean |-> [c \in {} |-> NaN], eligible |-> FALSE]

Init == RunInit /\ SanIdle

\* lines 53-57: the required-column check; st.stop() ends the script.
CheckColumns ==
    /\ pc = "loaded"
    /\ pc' = IF MissingRequired(user_headers) THEN "schema_error" ELSE "ready"
    /\ UNCHANGED << user_headers, token, records, batch_size, i, success_count,
                    error_count, batches, posts, log, progress, summary >>
    /\ UNCHANGED sanVars

\* lines 57-68: the button is clicked.
StartSync ==
    /\ pc = "ready"
    /\ IF token = ""
       THEN /\ pc' = "token_error"
            /\ UNCHANGED << i, success_count, error_count >>
       ELSE /\ pc' = "loop"
            /\ i' = 0
            /\ success_count' = 0
            /\ error_count' = 0
    /\ UNCHANGED << user_headers, token, records, batch_size, batches, posts,
                    log, progress, summary >>
    /\ UNCHANGED sanVars

\* Variant of SkipEmptyBatch that leaves the loop ('break') on an empty batch.
SkipEmptyBatch_Break ==
    /\ pc = "loop"
    /\ i < Len(records)
    /\ LET batch == Batch(records, i, batch_size)
       IN  /\ CleanBatch(batch) = <<>>
           /\ batches' = Append(batches, batch)
    /\ pc' = "done"
    /\ summary' = << [Sent |-> success_count, Failed |-> error_count] >>
    /\ UNCHANGED << user_headers, token, records, batch_size, i, success_count,
                    error_count, posts, log, progress >>
    /\ UNCHANGED sanVars

\* lines 71-81: an iteration whose clean_batch is empty ('continue').
SkipEmptyBatch ==
    /\ pc = "loop"
    /\ i < Len(records)
    /\ LET batch == Batch(records, i, batch_size)
       IN  /\ CleanBatch(batch) = <<>>
           /\ batches' = Append(batches, batch)
    /\ i' = NextIndex(i, batch_size)
    /\ UNCHANGED << user_headers, token, records, batch_size, pc, success_count,
                    error_count, posts, log, progress, summary >>
    /\ UNCHANGED sanVars

\* lines 71-135, 141-144: an iteration whose post returns a response.
\* The display calls of lines 118-135 are taken to return normally; they sit
\* inside the try, so one that raised would also run the handler of line 138.
PostAnswered ==
    /\ pc = "loop"
    /\ i < Len(records)
    /\ \E status \in Statuses :
         LET batch == Batch(records, i, batch_size)
             clean_batch == CleanBatch(batch)
             batch_num == BatchNum(i, batch_size)
         IN  /\ clean_batch # <<>>
             /\ batches' = Append(batches, batch)
             /\ posts' = Append(posts, [index |-> i, products |-> clean_batch,
                                        answered |-> TRUE, status |-> status])
             /\ IF IsSuccess(status)
                THEN /\ success_count' = success_count + Len(clean_batch)
                     /\ UNCHANGED error_count
                ELSE /\ error_count' = error_count + Len(clean_batch)
                     /\ UNCHANGED success_count
             /\ log' = Append(log, [kind |-> "expander", batch_num |-> batch_num,
                                    status |-> status, items |-> Len(clean_batch),
                                    payload |-> clean_batch])
    /\ progress' = Append(progress, ProgressEvent)
    /\ i' = NextIndex(i, batch_size)
    /\ UNCHANGED << user_headers, token, records, batch_size, pc, summary >>
    /\ UNCHANGED sanVars

\* Variant of PostFailed without the inner handler: the exception reaches
\* the outer handler of line 148 and the run ends there.
PostFailed_Raises ==
    /\ pc = "loop"
    /\ i < Len(records)
    /\ LET batch == Batch(records, i, batch_size)
           clean_batch == CleanBatch(batch)
       IN  /\ clean_batch # <<>>
           /\ batches' = Append(batches, batch)
           /\ posts' = Append(posts, [index |-> i, products |-> clean_batch,
                                      answered |-> FALSE, status |-> 0])
    /\ pc' = "read_error"
    /\ UNCHANGED << user_headers, token, records, batch_size, i, success_count,
                    error_count, log, progress, summary >>
    /\ UNCHANGED sanVars

\* lines 71-93, 137-144: an iteration whose post raises (no response).
PostFailed ==
    /\ pc = "loop"
    /\ i < Len(records)
    /\ LET batch == Batch(records, i, batch_size)
           clean_batch == CleanBatch(batch)
       IN  /\ clean_batch # <<>>
           /\ batches' = Append(batches, batch)
           /\ posts' = Append(posts, [index |-> i, products |-> clean_batch,
                                      answered |-> FALSE, status |-> 0])
           /\ error_count' = error_count + Len(clean_batch)
           /\ log' = Append(log, [kind |-> "network_error", batch_num |-> 0,
                                  status |-> 0, items |-> 0, payload |-> <<>>])
    /\ progress' = Append(progress, ProgressEvent)
    /\ i' = NextIndex(i, batch_size)
    /\ UNCHANGED << user_headers, token, records, batch_size, pc, success_count,
                    summary >>
    /\ UNCHANGED sanVars

\* line 146: the range is exhausted, the summary is shown.
JobComplete ==
    /\ pc = "loop"
    /\ i >= Len(records)
    /\ pc' = "done"
    /\ summary' = << [Sent |-> success_count, Failed |-> error_count] >>
    /\ UNCHANGED << user_headers, token, records, batch_size, i, success_count,
                    error_count, batches, posts, log, progress >>
    /\ UNCHANGED sanVars

Next ==
    \/ CheckColumns
    \/ StartSync
    \/ SkipEmptyBatch
    \/ PostAnswered
    \/ PostFailed
    \/ JobComplete

Spec == Init /\ [][Next]_vars

(***************************************************************************)
(* Sanitizer harness: lines 77-78 applied to one raw row.                  *)
(***************************************************************************)
\* Raw cell values: missing, numbers (0 included), empty, blank and
\* non-blank text.
RawValues == { NaN, Num(0), Num(7), Num(10),
               Str(<<>>), Str(<< " " >>), Str(<< "\t", " " >>),
               Str(<< "A" >>), Str(<< " ", "A", " " >>), Str(<< "0" >>) }

SanColumns == { "id", "title", "brand" }

SanInit ==
    /\ user_headers = << "id", "title", "brand" >>
    /\ token = ""
    /\ batch_size = 1
    /\ records = <<>>
    /\ pc = "sanitizer"
    /\ i = 0
    /\ success_count = 0
    /\ error_count = 0
    /\ batches = <<>>
    /\ posts = <<>>
    /\ log = <<>>
    /\ progress = <<>>
    /\ summary = <<>>
    /\ san_row \in [SanColumns -> RawValues]
    /\ san_out = [state |-> "idle", clean |-> [c \in {} |-> NaN], eligible |-> FALSE]

\* lines 77-78 on san_row.
Sanitize ==
    /\ pc = "sanitizer"
    /\ san_out.state = "idle"
    /\ LET clean_row == CleanRow(san_row)
       IN  san_out' = [state |-> "done", clean |-> clean_row,
                       eligible |-> Eligible(clean_row)]
    /\ UNCHANGED san_row
    /\ UNCHANGED runVars

SanNext == Sanitize

SanSpec == SanInit /\ [][SanNext]_vars

(***************************************************************************)
(* Vocabulary of the properties.                                           *)
(***************************************************************************)
InRun == pc \in {"loop", "done"}

\* Number of rows the loop has gone through.
RowsProcessed == Min(i, Len(records))

\* A value is present and its text has a non-whitespace character.
NonBlank(v) ==
    /\ v.kind \notin {"nan", "none"}
    /\ \E k \in DOMAIN PyStr(v) : PyStr(v)[k] \notin Whitespace

\* The row is one the run treats as eligible (it is placed in clean_batch).
Submitted(row) == CleanBatch(<< row >>) # <<>>

EligibleCount(rows) == Cardinality({k \in DOMAIN rows : Submitted(rows[k])})

RECURSIVE Concat(_)
Concat(seqs) == IF seqs = <<>> THEN <<>> ELSE Head(seqs) \o Concat(Tail(seqs))

RECURSIVE SumItems(_, _)
SumItems(calls, wanted) ==
    IF calls = <<>> THEN 0
    ELSE (IF (Head(calls).answered /\ Head(calls).status = 200) = wanted
          THEN Len(Head(calls).products) ELSE 0) + SumItems(Tail(calls), wanted)

\* The loop indices below 'upto' whose slice holds a row the run submits.
RECURSIVE DueIndices(_, _)
DueIndices(from, upto) ==
    IF from >= upto THEN <<>>
    ELSE (IF EligibleCount(SubSeq(records, from + 1,
                                  Min(from + batch_size, Len(records)))) > 0
          THEN << from >> ELSE <<>>) \o DueIndices(from + batch_size, upto)

\* C1: once a post is answered 401 no later batch is posted, i.e. a 401
\* answer can only be the last transport call of the run.
C1_AuthAbortHaltsDispatch ==
    \A k \in DOMAIN posts :
        (posts[k].answered /\ posts[k].status = 401) => k = Len(posts)

\* The transport calls made so far are exactly the batches gone through
\* that hold a submitted row, once each, in batch order.
DispatchedInOrder ==
    InRun => [k \in DOMAIN posts |-> posts[k].index] = DueIndices(0, RowsProcessed)

\* In the loop a step is always possible.
LoopNeverStuck == (pc = "loop") => ENABLED <<Next>>_vars

\* A step of the loop either completes the run or moves on by one batch,
\* whatever the outcome of the post; i never passes the end by a full batch.
LoopAdvances ==
    (pc = "loop") =>
        \/ pc' = "done" /\ i >= Len(records)
        \/ pc' = "loop" /\ i < Len(records) /\ i' = i + batch_size

\* C2: a rejection or a transport failure never stops the run: every batch
\* with a submitted row is posted exactly once, in batch order, and the run
\* reaches completion (the loop is never stuck and every step of it
\* advances by one batch or completes; the range of i is finite).
C2_RunContinues ==
    /\ []DispatchedInOrder
    /\ []LoopNeverStuck
    /\ [][LoopAdvances]_vars

\* C2 witness: a completed run in which a rejected or failed post was
\* followed by a later post.
C2_Witness ==
    /\ pc = "done"
    /\ \E k \in DOMAIN posts :
          /\ k < Len(posts)
          /\ (~posts[k].answered \/ posts[k].status = 500)

C4_BatchingExhaustive ==
    InRun =>
      /\ Concat(batches) = SubSeq(records, 1, RowsProcessed)
      /\ \A k \in DOMAIN batches :
            /\ k < Len(batches) => Len(batches[k]) = batch_size
            /\ Len(batches[k]) \in 1..batch_size
      /\ pc = "done" =>
            /\ Concat(batches) = records
            /\ Len(batches) = (Len(records) + batch_size - 1) \div batch_size

\* C4 witness: a completed run of several batches with a short last batch.
C4_Witness ==
    /\ pc = "done"
    /\ Len(batches) >= 2
    /\ Len(batches[Len(batches)]) < batch_size

\* C5: every row of every posted payload has id and title, and every field
\* it carries is present and non-blank.
C5_PayloadRowsClean ==
    \A k \in DOMAIN posts :
        \A r \in DOMAIN posts[k].products :
            LET row == posts[k].products[r]
            IN  /\ "id" \in DOMAIN row
                /\ "title" \in DOMAIN row
                /\ \A c \in DOMAIN row : NonBlank(row[c])

\* C5 witness: a payload whose row lost a blank field, posted from a batch
\* that also held a row without a usable title or id.
C5_Witness ==
    \E k \in DOMAIN posts :
        /\ \E r \in DOMAIN posts[k].products : "brand" \notin DOMAIN posts[k].products[r]
        /\ Len(posts[k].products) < Len(batches[BatchNum(posts[k].index, batch_size)])

\* The running totals the run keeps (lines 65-66).
Totals == [success |-> success_count, error |-> error_count]

\* C6: the totals the run keeps account for every row processed: success +
\* error + skipped equals the number of rows gone through (a total the run
\* does not keep contributes nothing).
C6_TotalsAccountForRows ==
    LET skipped == IF "skipped" \in DOMAIN Totals THEN Totals.skipped ELSE 0
    IN  InRun => Totals.success + Totals.error + skipped = RowsProcessed

\* C7: after every batch, an empty one included, a progress event with the
\* rows processed so far is emitted; after the last batch it is total/total.
C7_ProgressAfterEveryBatch ==
    InRun =>
      /\ Len(progress) = Len(batches)
      /\ progress # <<>> => progress[Len(progress)].done = RowsProcessed

\* C8: without both id and title among the columns the run stops at the
\* schema check: no batch, no transport call, no counter change.
C8_SchemaErrorHalts ==
    LET columns == {user_headers[k] : k \in DOMAIN user_headers}
    IN  ~({"id", "title"} \subseteq columns) =>
          /\ pc \in {"loaded", "schema_error"}
          /\ posts = <<>>
          /\ batches = <<>>
          /\ success_count = 0
          /\ error_count = 0
          /\ summary = <<>>

\* C8 witness: the schema error is reached with rows and a token at hand.
C8_Witness ==
    /\ pc = "schema_error"
    /\ records # <<>>
    /\ token # ""

\* The step about to be taken goes through a batch with no submitted row.
AtEmptyBatch ==
    /\ pc = "loop"
    /\ i < Len(records)
    /\ EligibleCount(SubSeq(records, i + 1, Min(i + batch_size, Len(records)))) = 0

\* Effects of an empty batch that do hold: no transport call, totals kept,
\* the run goes on with the next batch.
EmptyBatchFrame ==
    /\ posts' = posts
    /\ success_count' = success_count
    /\ error_count' = error_count
    /\ pc' = "loop"
    /\ i' = i + batch_size
    /\ Len(batches') = Len(batches) + 1

\* A log entry shown by this step is numbered by the batch's position.
NumberedByPosition ==
    (log' # log /\ log'[Len(log')].kind = "expander")
       => log'[Len(log')].batch_num = Len(batches')

C10_EligibleIffRetained ==
    san_out.state = "done" =>
      /\ DOMAIN san_out.clean = {c \in DOMAIN san_row : NonBlank(san_row[c])}
      /\ \A c \in DOMAIN san_out.clean : san_out.clean[c] = san_row[c]
      /\ san_out.eligible <=> {"id", "title"} \subseteq DOMAIN san_out.clean

====
